---- MODULE Spec2Model ----
(***************************************************************************)
(* A model of ADBManager.py: the single window of the ADB Manager, its    *)
(* app list, its progress dialogs and its deferred load_apps callbacks.    *)
(*                                                                         *)
(* The program is single-threaded: every handler (a timer callback, a      *)
(* button click, a drop event) runs to completion on the interface thread, *)
(* so each handler is one action.  Text (process output, paths, package    *)
(* identifiers) is a sequence of one-character strings, and the Python     *)
(* string methods the handlers use are operators on such sequences.        *)
(* What a handler does to the outside world (processes run, message boxes  *)
(* shown, timers armed) is recorded, in order, in trace.  A message box is *)
(* modal: the handler waits for it, and the answer is an input of the      *)
(* handler.                                                                *)
(***************************************************************************)
EXTENDS Naturals, Sequences, FiniteSets

VARIABLES
    app_list,         \* self.app_list: the rows of the QListWidget, in order
    dialogs,          \* every QProgressDialog created so far: TRUE while open
    progress_dialog,  \* self.progress_dialog: index into dialogs (0: unset)
    timers,           \* QTimer.singleShot(100, self.load_apps) not yet fired
    startup,          \* the singleShot of __init__ has not fired yet
    alive,            \* no exception has escaped a handler
    trace,            \* effects of the handler that ran last, in order
    last              \* the handler that ran last

vars == <<app_list, dialogs, progress_dialog, timers, startup, alive, trace,
          last>>

----------------------------------------------------------------------------
(* Bounds of the model *)

\* most package lines in one list-packages output
MaxLines == 2
\* most progress dialogs (refresh requests) in one run
MaxRefresh == 2
\* most files in one drop event
MaxDrop == 2

----------------------------------------------------------------------------
(* Python string methods, on sequences of characters *)

Whitespace == {" ", "\n", "\t", "\r"}

RECURSIVE lstrip(_)
lstrip(s) ==
    IF s # <<>> /\ Head(s) \in Whitespace THEN lstrip(Tail(s)) ELSE s

RECURSIVE rstrip(_)
rstrip(s) ==
    IF s # <<>> /\ s[Len(s)] \in Whitespace
    THEN rstrip(SubSeq(s, 1, Len(s) - 1)) ELSE s

\* str.strip()
strip_none(s) == s
strip(s) == rstrip(lstrip(s))

\* str.splitlines(): lines end at \n, \r or \r\n; no empty last line
\* (the other separators of Python are not characters of the outputs here)
RECURSIVE splitlines(_)
splitlines(s) ==
    IF s = <<>> THEN <<>>
    ELSE IF \A i \in 1..Len(s) : s[i] \notin {"\n", "\r"} THEN <<s>>
    ELSE LET i == CHOOSE k \in 1..Len(s) :
                      /\ s[k] \in {"\n", "\r"}
                      /\ \A j \in 1..(k - 1) : s[j] \notin {"\n", "\r"}
             n == IF s[i] = "\r" /\ i < Len(s) /\ s[i + 1] = "\n"
                  THEN i + 2 ELSE i + 1
         IN  <<SubSeq(s, 1, i - 1)>> \o splitlines(SubSeq(s, n, Len(s)))

\* package_line.split(":")[-1]: what follows the last colon
split_first(line) ==
    IF \A i \in 1..Len(line) : line[i] # ":" THEN line
    ELSE LET i == CHOOSE k \in 1..Len(line) :
                      /\ line[k] = ":"
                      /\ \A j \in 1..(k - 1) : line[j] # ":"
         IN  SubSeq(line, 1, i - 1)
split_last(line) ==
    IF \A i \in 1..Len(line) : line[i] # ":" THEN line
    ELSE LET i == CHOOSE k \in 1..Len(line) :
                      /\ line[k] = ":"
                      /\ \A j \in (k + 1)..Len(line) : line[j] # ":"
         IN  SubSeq(line, i + 1, Len(line))

\* sub in s
contains_always(s, sub) == TRUE
contains(s, sub) ==
    \E i \in 1..(Len(s) + 1) :
        /\ i + Len(sub) - 1 <= Len(s)
        /\ SubSeq(s, i, i + Len(sub) - 1) = sub

\* s.endswith(suffix)
endswith_anywhere(s, suffix) == contains(s, suffix)
endswith(s, suffix) ==
    /\ Len(s) >= Len(suffix)
    /\ SubSeq(s, Len(s) - Len(suffix) + 1, Len(s)) = suffix

----------------------------------------------------------------------------
(* The outside world: what adb, the catalog and the user may answer *)

PackagePrefix == <<"p", "a", "c", "k", "a", "g", "e", ":">>
Ids == {<<"c", ".", "a">>, <<"c", ".", "b">>}
PackageLine(id) == PackagePrefix \o id

RECURSIVE JoinLines(_)
JoinLines(ls) ==
    IF ls = <<>> THEN <<>> ELSE Head(ls) \o <<"\n">> \o JoinLines(Tail(ls))

IdSeqs == UNION {[1..n -> Ids] : n \in 0..MaxLines}

\* standard output of `adb shell pm list packages -3`
ListOutputs ==
    {JoinLines([i \in 1..Len(ids) |-> PackageLine(ids[i])]) : ids \in IdSeqs}
        \cup {<<"\n">>, <<" ", "\n">>}

\* error output of the same command
ListErrors == {<<>>, <<"e", "r", "r">>}

\* standard output of `adb devices`: nothing at all, or the header line
\* adb prints before the devices (which itself contains "device")
DevicesHeader ==
    <<"L", "i", "s", "t", " ", "o", "f", " ", "d", "e", "v", "i", "c", "e",
      "s", " ", "a", "t", "t", "a", "c", "h", "e", "d", "\n">>
DevicesOutputs ==
    { <<>>,
      DevicesHeader \o <<"e", "m", "u", "\t", "d", "e", "v", "i", "c", "e", "\n">> }

\* what fetch_app_details and requests.get do for one package
NoName == "No Name Found"
Lookups ==
    { [lookup |-> "raise", title |-> FALSE, icon |-> FALSE, get |-> "none"],
      [lookup |-> "ok", title |-> TRUE, icon |-> TRUE, get |-> "ok"],
      [lookup |-> "ok", title |-> TRUE, icon |-> TRUE, get |-> "raise"],
      [lookup |-> "ok", title |-> TRUE, icon |-> FALSE, get |-> "none"] }
NotFound == [lookup |-> "raise", title |-> FALSE, icon |-> FALSE, get |-> "none"]

\* one refresh sees one catalog: the same package gets the same answer, and
\* a package the catalog does not know is not found
Catalogs(known) == [known -> Lookups]
Details(catalog, package_name) ==
    IF package_name \in DOMAIN catalog THEN catalog[package_name] ELSE NotFound

\* the identifiers that occur in an output of list-packages
IdsIn(stdout) == {id \in Ids : \E i \in 1..Len(stdout) :
                     /\ i + Len(id) - 1 <= Len(stdout)
                     /\ SubSeq(stdout, i, i + Len(id) - 1) = id}

\* paths a drop event may carry
Apk == <<".", "a", "p", "k">>
Paths ==
    { <<"a">> \o Apk,
      <<"c">> \o Apk \o <<".", "x">> }

\* the user's reply to an install prompt and the exit status of adb install
Answers ==
    { [reply |-> "No", code |-> 0],
      [reply |-> "Yes", code |-> 0],
      [reply |-> "Yes", code |-> 1] }

----------------------------------------------------------------------------
(* Effects: one record per thing a handler does to the outside world *)

NoText == <<>>

\* subprocess.Popen(...).communicate() / subprocess.run(...)
Run(what, arg, out, err, code) ==
    [kind |-> "run", what |-> what, arg |-> arg, out |-> out, err |-> err,
     code |-> code, answer |-> ""]

\* QMessageBox.critical / warning / information / question
Box(kind, what, arg, answer) ==
    [kind |-> kind, what |-> what, arg |-> arg, out |-> NoText,
     err |-> NoText, code |-> 0, answer |-> answer]

\* logging.warning / logging.error (level: "log.warning", "log.error")
Log(level, what, arg) ==
    [kind |-> level, what |-> what, arg |-> arg, out |-> NoText,
     err |-> NoText, code |-> 0, answer |-> ""]

\* fetch_app_details(package_name) and requests.get(icon_url)
Net(what, arg, answer) ==
    [kind |-> "net", what |-> what, arg |-> arg, out |-> NoText,
     err |-> NoText, code |-> 0, answer |-> answer]

\* QProgressDialog(...) and QTimer.singleShot(100, self.load_apps)
Gui(what) ==
    [kind |-> "gui", what |-> what, arg |-> NoText, out |-> NoText,
     err |-> NoText, code |-> 0, answer |-> ""]

----------------------------------------------------------------------------
(* The handlers.  A handler works on the window w, a record of the        *)
(* variables it may change, and returns the window it leaves behind.      *)

Window ==
    [app_list |-> app_list, dialogs |-> dialogs,
     progress_dialog |-> progress_dialog, timers |-> timers,
     alive |-> alive, trace |-> <<>>]

Leave(w, op) ==
    /\ app_list' = w.app_list
    /\ dialogs' = w.dialogs
    /\ progress_dialog' = w.progress_dialog
    /\ timers' = w.timers
    /\ alive' = w.alive
    /\ trace' = w.trace
    /\ last' = op

Did(w, effects) == [w EXCEPT !.trace = @ \o effects]

\* load_apps_with_progress: a new dialog replaces self.progress_dialog and
\* load_apps is deferred by a single-shot timer
load_apps_with_progress(w) ==
    [w EXCEPT !.dialogs = Append(@, TRUE),
              !.progress_dialog = Len(w.dialogs) + 1,
              !.timers = @ + 1,
              !.trace = @ \o <<Gui("QProgressDialog"), Gui("singleShot")>>]

\* self.progress_dialog.cancel() and .close(): the dialog is no longer open
close_progress(w) ==
    [w EXCEPT !.dialogs = [@ EXCEPT ![w.progress_dialog] = FALSE]]

\* self.app_list.clear()
clear_skipped(w) == w
clear(w) == [w EXCEPT !.app_list = <<>>]

\* "device" not in stdout.decode()
no_device(devices) == ~contains(devices, <<"d", "e", "v", "i", "c", "e">>)

\* check_adb_connection
check_adb_connection(w, devices) ==
    IF no_device(devices)
    THEN Did(w, << Run("devices", NoText, devices, NoText, 0),
                   Log("log.warning", "No ADB device connected.", NoText),
                   Box("critical", "No device connected.", NoText, "Ok") >>)
    ELSE Did(w, << Run("devices", NoText, devices, NoText, 0) >>)

\* the exceptions the try block of add_app_item catches: both network
\* calls stand inside it, under `except Exception`
TryCatchesLookupOnly == {"fetch_app_details"}
TryCatchesGetOnly == {"requests.get"}
TryCatches == {"fetch_app_details", "requests.get"}

\* add_app_item, given what the two network calls do for this package
add_app_item(w, package_name, d) ==
    LET raised == IF d.lookup = "raise" THEN "fetch_app_details"
                  ELSE IF d.icon /\ d.get = "raise" THEN "requests.get"
                  ELSE "none"
        app_name == IF d.lookup = "ok" /\ d.title THEN "Play Title" ELSE NoName
        icon == IF d.lookup = "ok" /\ d.icon /\ d.get = "ok"
                THEN "fetched" ELSE "default_icon.png"
        calls == <<Net("fetch_app_details", package_name, d.lookup)>>
                 \o (IF d.lookup = "ok" /\ d.icon
                     THEN <<Net("requests.get", package_name, d.get)>>
                     ELSE <<>>)
        w1 == Did(w, calls)
    IN  IF raised = "none"
        THEN [w1 EXCEPT !.app_list = Append(@,
                 [package |-> package_name, name |-> app_name, icon |-> icon])]
        ELSE IF raised \in TryCatches
        THEN [Did(w1, <<Log("log.error", "Failed to fetch details", package_name)>>)
                 EXCEPT !.app_list = Append(@,
                 [package |-> package_name, name |-> app_name, icon |-> icon])]
        ELSE [w1 EXCEPT !.alive = FALSE]

\* the loop of load_apps over the package lines
RECURSIVE add_all(_, _, _)
add_all(w, packages, catalog) ==
    IF packages = <<>> \/ ~w.alive THEN w
    ELSE LET package_name == split_last(Head(packages))
         IN  add_all(add_app_item(w, package_name, Details(catalog, package_name)),
                     Tail(packages), catalog)

\* load_apps, given the outputs of the two adb calls and of the lookups
load_apps(w, devices, stdout, stderr, catalog) ==
    LET w1 == check_adb_connection(clear(w), devices)
        w2 == Did(w1, <<Run("list", NoText, stdout, stderr, 0)>>)
        packages == splitlines(strip(stdout))
    IN  IF stderr # <<>>
        THEN close_progress(Did(w2,
                 << Log("log.error", "Error while loading apps", NoText),
                    Box("critical", "Failed to load apps.", NoText, "Ok") >>))
        ELSE IF packages = <<>>
        THEN close_progress(Did(w2,
                 << Log("log.warning", "No apps found", NoText),
                    Box("warning", "No apps found", NoText, "Ok") >>))
        ELSE LET w3 == add_all(w2, packages, catalog)
             IN  IF w3.alive THEN close_progress(w3) ELSE w3

\* uninstall_app
uninstall_app_reload_on_success(w, package_name, code) ==
    IF code = 0
    THEN load_apps_with_progress(
             Did(w, <<Run("uninstall", package_name, NoText, NoText, code)>>))
    ELSE Did(w, << Run("uninstall", package_name, NoText, NoText, code),
                   Log("log.error", "Failed to uninstall app", package_name) >>)
uninstall_app(w, package_name, code) ==
    load_apps_with_progress(
        Did(w, <<Run("uninstall", package_name, NoText, NoText, code)>>
               \o (IF code = 0 THEN <<>>
                   ELSE <<Log("log.error", "Failed to uninstall app", package_name)>>)))

\* reply == QMessageBox.Yes
confirmed_always(reply) == TRUE
confirmed(reply) == reply = "Yes"

\* install_apk, given the user's answer and the exit status of adb install
install_apk(w, apk_path, reply, code) ==
    LET asked == Did(w, <<Box("question", "Install APK", apk_path, reply)>>)
    IN  IF confirmed(reply)
        THEN load_apps_with_progress(
                 Did(asked, <<Run("install", apk_path, NoText, NoText, code)>>
                     \o (IF code = 0
                         THEN <<Box("information", "Success", apk_path, "Ok")>>
                         ELSE << Log("log.error", "Failed to install APK", apk_path),
                                 Box("critical", "Failed to install", apk_path, "Ok") >>)))
        ELSE asked

\* dropEvent: each url in turn
\* (answers: for each prompt in turn, the user's reply and, should adb
\* install run, its exit status)
RECURSIVE dropEvent(_, _, _)
dropEvent(w, urls, answers) ==
    IF urls = <<>> THEN w
    ELSE LET apk_path == Head(urls)
         IN  IF endswith(apk_path, Apk)
             THEN dropEvent(install_apk(w, apk_path, Head(answers).reply,
                                        Head(answers).code),
                            Tail(urls), Tail(answers))
             ELSE dropEvent(w, Tail(urls), answers)

----------------------------------------------------------------------------
(* The state machine *)

Init ==
    /\ app_list = <<>>
    /\ dialogs = <<>>
    /\ progress_dialog = 0
    /\ timers = 0
    /\ startup = TRUE
    /\ alive = TRUE
    /\ trace = <<>>
    /\ last = "__init__"

\* the single-shot timer of __init__ fires
StartupTimer ==
    /\ alive /\ startup
    /\ Len(dialogs) < MaxRefresh
    /\ startup' = FALSE
    /\ Leave(load_apps_with_progress(Window), "startup")

\* the refresh button is clicked (the user reaches the window only after the
\* start-up timer, armed in __init__ before the window is shown, has fired)
RefreshClicked ==
    /\ alive /\ ~startup
    /\ Len(dialogs) < MaxRefresh
    /\ UNCHANGED startup
    /\ Leave(load_apps_with_progress(Window), "refresh")

\* a single-shot timer armed by load_apps_with_progress fires
LoadApps ==
    /\ alive /\ timers > 0
    /\ UNCHANGED startup
    /\ \E devices \in DevicesOutputs, stdout \in ListOutputs, stderr \in ListErrors :
         \E catalog \in Catalogs(IF stderr = <<>> THEN IdsIn(stdout) ELSE {}) :
           Leave(load_apps([Window EXCEPT !.timers = @ - 1],
                           devices, stdout, stderr, catalog), "load_apps")

\* the uninstall button of a row is clicked
UninstallClicked ==
    /\ alive /\ ~startup
    /\ Len(dialogs) < MaxRefresh
    /\ UNCHANGED startup
    /\ \E i \in 1..Len(app_list), code \in {0, 1} :
         Leave(uninstall_app(Window, app_list[i].package, code), "uninstall_app")

\* files are dropped on the window (dragEnterEvent accepted them as urls)
Drop ==
    /\ alive /\ ~startup
    /\ UNCHANGED startup
    /\ \E n \in 1..MaxDrop :
         \E urls \in [1..n -> Paths] :
           LET k == Cardinality({i \in 1..n : endswith(urls[i], Apk)})
           IN  \E answers \in [1..k -> Answers] :
                 /\ Len(dialogs) + Cardinality({i \in 1..k : answers[i].reply = "Yes"})
                        <= MaxRefresh
                 /\ Leave(dropEvent(Window, urls, answers), "dropEvent")

Next ==
    \/ StartupTimer
    \/ RefreshClicked
    \/ LoadApps
    \/ UninstallClicked
    \/ Drop

Spec == Init /\ [][Next]_vars

----------------------------------------------------------------------------
(* What the claims are stated in: the effects of the last handler *)

Places(kind, what) ==
    {i \in 1..Len(trace) : trace[i].kind = kind /\ trace[i].what = what}
Kind(kind) == {i \in 1..Len(trace) : trace[i].kind = kind}
AnyBox ==
    Kind("critical") \cup Kind("warning") \cup Kind("information")
        \cup Kind("question")

\* the one call of list-packages and of the device check of a load_apps run
ListRun == trace[CHOOSE i \in Places("run", "list") : TRUE]
DevicesRun == trace[CHOOSE i \in Places("run", "devices") : TRUE]

\* the lookups of a load_apps run, one per package, in order
Fetches == SelectSeq(trace, LAMBDA e : e.kind = "net" /\ e.what = "fetch_app_details")
GetFailed(package_name) ==
    \E i \in Places("net", "requests.get") :
        trace[i].arg = package_name /\ trace[i].answer = "raise"

WellFormed(ids) == JoinLines([i \in 1..Len(ids) |-> PackageLine(ids[i])])
OnlyWhitespace(s) == \A i \in 1..Len(s) : s[i] \in {" ", "\n", "\t", "\r"}
MentionsDevice(s) ==
    \E i \in 1..Len(s) :
        /\ i + 5 <= Len(s)
        /\ <<s[i], s[i + 1], s[i + 2], s[i + 3], s[i + 4], s[i + 5]>>
               = <<"d", "e", "v", "i", "c", "e">>
IsApkPath(p) ==
    /\ Len(p) >= 4
    /\ <<p[Len(p) - 3], p[Len(p) - 2], p[Len(p) - 1], p[Len(p)]>>
           = <<".", "a", "p", "k">>
CurrentDialogClosed == progress_dialog \in DOMAIN dialogs /\ ~dialogs[progress_dialog]

----------------------------------------------------------------------------
(* The claims *)

\* C1: after a load_apps whose list-packages call gave empty error output
\* and N >= 1 well-formed package lines, the app list holds exactly N rows,
\* in line order, row i labelled with the identifier of line i, whatever the
\* list held before.
C1_RowsMatchLines ==
    last = "load_apps" =>
        \A ids \in IdSeqs :
            (Len(ids) >= 1 /\ ListRun.err = <<>> /\ ListRun.out = WellFormed(ids))
                => /\ Len(app_list) = Len(ids)
                   /\ \A i \in 1..Len(ids) : app_list[i].package = ids[i]

C1_Witness ==
    /\ last = "load_apps"
    /\ Len(dialogs) >= 2
    /\ ListRun.err = <<>>
    /\ Len(app_list) = 2
    /\ app_list[1].package # app_list[2].package

\* C2: after a load_apps whose list-packages call gave non-empty error
\* output, a critical dialog was shown, no package was looked up, the
\* progress dialog is cancelled and the app list is empty, whatever the
\* standard output was.
C2_ErrorAborts ==
    (last = "load_apps" /\ ListRun.err # <<>>) =>
        /\ app_list = <<>>
        /\ Places("critical", "Failed to load apps.") # {}
        /\ Kind("net") = {}
        /\ CurrentDialogClosed

C2_Witness ==
    /\ last = "load_apps"
    /\ ListRun.err # <<>>
    /\ IdsIn(ListRun.out) # {}
    /\ Len(dialogs) >= 2

\* C3: after a load_apps whose list-packages call gave empty error output
\* and an empty or whitespace-only standard output, a warning dialog was
\* shown, no package was looked up, the progress dialog is cancelled and
\* the app list is empty.
C3_EmptyAborts ==
    (last = "load_apps" /\ ListRun.err = <<>> /\ OnlyWhitespace(ListRun.out)) =>
        /\ app_list = <<>>
        /\ Places("warning", "No apps found") # {}
        /\ Kind("net") = {}
        /\ CurrentDialogClosed

C3_Witness ==
    /\ last = "load_apps"
    /\ ListRun.err = <<>>
    /\ ListRun.out # <<>>
    /\ OnlyWhitespace(ListRun.out)
    /\ Len(dialogs) >= 2

\* C4: in a load_apps run every looked-up package gets exactly one row, and
\* a package whose catalog lookup raised gets the row with the placeholder
\* name and the fallback icon; the run goes on to the remaining packages
\* and no exception escapes.
C4_LookupFailureDefaults ==
    last = "load_apps" =>
        /\ alive
        /\ Len(app_list) = Len(Fetches)
        /\ \A i \in 1..Len(Fetches) :
               Fetches[i].answer = "raise" =>
                   app_list[i] = [package |-> Fetches[i].arg, name |-> "No Name Found",
                                  icon |-> "default_icon.png"]
        /\ \A ids \in IdSeqs :
               (ListRun.err = <<>> /\ ListRun.out = WellFormed(ids))
                   => Len(Fetches) = Len(ids)

C4_Witness ==
    /\ last = "load_apps"
    /\ Len(Fetches) = 2
    /\ Fetches[1].answer = "raise"
    /\ Fetches[2].answer = "ok"
    /\ Len(app_list) = 2
    /\ app_list[2].name = "Play Title"

\* C5 as claimed: a load_apps run in which an icon-bytes fetch failed has
\* let the exception escape.
C5_IconFetchFailureEscapes ==
    (last = "load_apps" /\ \E i \in Places("net", "requests.get") :
                               trace[i].answer = "raise")
        => ~alive

\* C5 as amended: a failed icon-bytes fetch is caught like a failed catalog
\* lookup: no exception escapes, the package still gets its row, with the
\* catalog title and the fallback icon, the remaining packages are added
\* and the progress dialog is closed.
C5_IconFetchFailureCaught ==
    last = "load_apps" =>
        /\ alive
        /\ Len(app_list) = Len(Fetches)
        /\ \A i \in 1..Len(Fetches) :
               GetFailed(Fetches[i].arg) =>
                   app_list[i] = [package |-> Fetches[i].arg, name |-> "Play Title",
                                  icon |-> "default_icon.png"]
        /\ CurrentDialogClosed

C5_Witness ==
    /\ last = "load_apps"
    /\ Len(Fetches) = 2
    /\ GetFailed(Fetches[1].arg)
    /\ ~GetFailed(Fetches[2].arg)
    /\ Len(app_list) = 2

\* C6: whatever a drop event does, it does for a path that ends with
\* ".apk": every prompt, process and message box of the handler names such
\* a path, and a process, a message box, a new progress dialog or a timer
\* comes only after a prompt.  A drop of files of other names does nothing.
C6_OnlyApkPrompted ==
    last = "dropEvent" =>
        \A i \in 1..Len(trace) :
            /\ IsApkPath(trace[i].arg) \/ trace[i].kind = "gui"
            /\ trace[i].kind # "question" =>
                   \E j \in 1..(i - 1) : trace[j].kind = "question"

\* (a drop event has at least one url: here none of them was an APK)
C6_Witness ==
    /\ last = "dropEvent"
    /\ trace = <<>>
    /\ timers > 0

\* C7: a drop event in which every prompt was answered "No" runs no
\* process, creates no progress dialog and arms no timer, and leaves the
\* app list, the dialogs and the pending timers as they were; adb install
\* runs only right after the prompt for the same file was answered "Yes".
C7_NoMeansNothing ==
    [][ last' = "dropEvent" =>
          /\ (\A i \in 1..Len(trace') :
                  trace'[i].kind = "question" => trace'[i].answer = "No")
                 => /\ \A i \in 1..Len(trace') : trace'[i].kind = "question"
                    /\ app_list' = app_list
                    /\ dialogs' = dialogs
                    /\ progress_dialog' = progress_dialog
                    /\ timers' = timers
          /\ \A i \in 1..Len(trace') :
                 (trace'[i].kind = "run") =>
                     /\ trace'[i].what = "install"
                     /\ i > 1
                     /\ trace'[i - 1].kind = "question"
                     /\ trace'[i - 1].arg = trace'[i].arg
                     /\ trace'[i - 1].answer = "Yes" ]_vars

C7_Witness ==
    /\ last = "dropEvent"
    /\ app_list # <<>>
    /\ Kind("question") # {}
    /\ \A i \in Kind("question") : trace[i].answer = "No"

\* C8: a load_apps run first runs the device check and then, exactly once,
\* list-packages; when "device" does not occur in the output of the check
\* the failure dialog is shown before list-packages runs, and rows are
\* added exactly when list-packages gave no error output and some line.
C8_DeviceCheckDoesNotGate ==
    last = "load_apps" =>
        /\ Places("run", "devices") = {1}
        /\ Cardinality(Places("run", "list")) = 1
        /\ ~MentionsDevice(DevicesRun.out) =>
               \E i \in Places("critical", "No device connected."),
                  j \in Places("run", "list") : i < j
        /\ (app_list # <<>>)
               <=> (ListRun.err = <<>> /\ ~OnlyWhitespace(ListRun.out))

C8_Witness ==
    /\ last = "load_apps"
    /\ ~MentionsDevice(DevicesRun.out)
    /\ Len(app_list) = 2

\* C9: an uninstall click runs adb uninstall exactly once and then requests
\* the reload (a new progress dialog, a timer), whatever the exit status;
\* a failed uninstall is logged and shows no message box, whereas a failed
\* install shows the critical box before the reload is requested.
C9_UninstallReloadsQuietly ==
    /\ last = "uninstall_app" =>
           /\ Places("run", "uninstall") = {1}
           /\ Kind("run") = {1}
           /\ AnyBox = {}
           /\ (trace[1].code # 0) => Kind("log.error") = {2}
           /\ Places("gui", "QProgressDialog") = {Len(trace) - 1}
           /\ Places("gui", "singleShot") = {Len(trace)}
           /\ timers >= 1
           /\ progress_dialog = Len(dialogs) /\ dialogs[progress_dialog]
    /\ last = "dropEvent" =>
           \A i \in Places("run", "install") :
               trace[i].code # 0 =>
                   /\ Len(trace) >= i + 4
                   /\ trace[i + 1].kind = "log.error"
                   /\ trace[i + 2].kind = "critical"
                   /\ trace[i + 2].arg = trace[i].arg
                   /\ trace[i + 3] = Gui("QProgressDialog")
                   /\ trace[i + 4] = Gui("singleShot")

C9_Witness ==
    /\ last = "uninstall_app"
    /\ trace[1].code # 0
    /\ Len(app_list) = 2

\* C10 as claimed: once no load_apps is pending any more, no progress
\* dialog is open.
C10_NoDialogLeftOpen ==
    (alive /\ ~startup /\ timers = 0) =>
        \A i \in DOMAIN dialogs : ~dialogs[i]

====
